---- MODULE Spec2Model ----
(***************************************************************************)
(* Paillier homomorphic-encryption demo service                            *)
(* (src/app/encryption.py, src/app/routes.py, src/app/models.py).          *)
(*                                                                         *)
(* The arithmetic is the one the service runs through the phe library      *)
(* (python-paillier): encoding of a number as (integer, base-16 exponent), *)
(* g = n + 1 encryption with a blinding factor r^n, CRT decryption,        *)
(* exponent alignment on addition, inverse trick for negative scalars.     *)
(* Every Python exception is a value [err |-> <exception class>].          *)
(*                                                                         *)
(* Scale.  The service generates 512-bit moduli and encodes floats with a  *)
(* 53-bit mantissa.  TLC computes with 32-bit integers, so the model keeps *)
(* the algorithms and shrinks the two widths: n_length = 10 bits and       *)
(* FLOAT_MANTISSA_BITS = 3.  As in the service, every float of the reduced *)
(* format encodes to an integer below max_int = n \div 3 - 1.              *)
(***************************************************************************)
EXTENDS Integers, Sequences, FiniteSets, TLC

VARIABLES temp_keypair_storage, issued, response

vars == <<temp_keypair_storage, issued, response>>

----------------------------------------------------------------------------
(* Bounds of the model *)

\* numbers in one /encrypt request
MaxNumbers == 2
\* units of Z_n that randrange(1, n) is enumerated over, besides one non-unit
MaxBlind == 1
\* entries the key store may hold before /encrypt is no longer enumerated
MaxStored == 2

----------------------------------------------------------------------------
(* Integer arithmetic *)

Abs(x) == IF x < 0 THEN -x ELSE x

Min(a, b) == IF a <= b THEN a ELSE b

RECURSIVE Pow(_, _)
Pow(b, e) == IF e = 0 THEN 1 ELSE b * Pow(b, e - 1)

\* int.bit_length()
RECURSIVE bit_length(_)
bit_length(x) == IF x = 0 THEN 0 ELSE 1 + bit_length(Abs(x) \div 2)

RECURSIVE GCD(_, _)
GCD(a, b) == IF b = 0 THEN a ELSE GCD(b, a % b)

\* a * b % c, computed in two halves so that no intermediate value leaves
\* 32 bits (c < 2^20, 0 <= a, b < c)
mulmod(a, b, c) == (((a * (b \div 1024)) % c) * 1024 + a * (b % 1024)) % c

\* pow(a, e, c) by squaring: s is the square of pow(a, e \div 2, c)
powmod_step(a, e, c, s) == IF e % 2 = 1 THEN mulmod(s, a % c, c) ELSE s

powmod_square(h, c) == mulmod(h, h, c)

RECURSIVE powmod(_, _, _)
powmod(a, e, c) ==
    IF e = 0 THEN 1 % c
    ELSE powmod_step(a, e, c, powmod_square(powmod(a, e \div 2, c), c))

\* phe.util.invert: the inverse of a modulo b; 0 stands for
\* ZeroDivisionError('invert() no inverse exists')
\* <<g, x, y>> with g = gcd(a, b) = a * x + b * y, from r = the triple of
\* (b, a % b)
euclid_step(a, b, r) == <<r[1], r[3], r[2] - (a \div b) * r[3]>>

RECURSIVE extended_euclid(_, _)
extended_euclid(a, b) ==
    IF b = 0 THEN <<a, 1, 0>>
    ELSE euclid_step(a, b, extended_euclid(b, a % b))

invert_from(r, b) == IF r[1] # 1 THEN 0 ELSE r[2] % b

invert(a, b) == invert_from(extended_euclid(a % b, b), b)

\* round() of the fraction num / den (den > 0): to nearest, ties to even
round(num, den) ==
    LET fl  == num \div den
        rem == num % den
    IN  IF 2 * rem < den THEN fl
        ELSE IF 2 * rem > den THEN fl + 1
        ELSE IF fl % 2 = 0 THEN fl ELSE fl + 1

----------------------------------------------------------------------------
(* Python values: exceptions, numbers, JSON text *)

\* a raised exception, by class name
Raise(e) == [err |-> e]

Raised(v) == v.err # ""

\* A number handed to the library: an int (f = FALSE, e = 0) or a float
\* (f = TRUE) of value m * 2^e.
Int_(k) == [f |-> FALSE, m |-> k, e |-> 0]

Float_(m, e) == [f |-> TRUE, m |-> m, e |-> e]

DigitChars == <<"0", "1", "2", "3", "4", "5", "6", "7", "8", "9">>

RECURSIVE digits(_)
digits(k) == IF k < 10 THEN <<DigitChars[k + 1]>>
             ELSE Append(digits(k \div 10), DigitChars[(k % 10) + 1])

\* a conversion through a 16-bit integer field: the digits of k % 2^16
str_fixed_width(k) == digits(k % 65536)

\* str(k) of an int, as the sequence of its characters
str(k) == IF k < 0 THEN <<"-">> \o digits(-k) ELSE digits(k)

DigitValue(c) == CHOOSE d \in 0..9 : DigitChars[d + 1] = c

IsDigit(c) == \E d \in 1..10 : DigitChars[d] = c

RECURSIVE digits_value(_)
digits_value(t) == IF t = <<>> THEN 0
                   ELSE 10 * digits_value(SubSeq(t, 1, Len(t) - 1)) + DigitValue(t[Len(t)])

\* int(text) for text = sign and body
int_signed(negative, body) ==
    IF body = <<>> \/ \E i \in 1..Len(body) : ~IsDigit(body[i])
    THEN Raise("ValueError")
    ELSE [err |-> "",
          val |-> IF negative THEN -digits_value(body) ELSE digits_value(body)]

\* int(text): the integer a decimal text denotes, ValueError otherwise
int_text(t) ==
    IF t # <<>> /\ t[1] \in {"-", "+"}
    THEN int_signed(t[1] = "-", Tail(t))
    ELSE int_signed(FALSE, t)

\* A JSON object text is a record of members; a member is a number literal
\* (quoted = FALSE) or a string literal (quoted = TRUE) with its characters.
json_number(k) == [quoted |-> FALSE, text |-> str(k)]

json_string(t) == [quoted |-> TRUE, text |-> t]

\* int(data[field]) after json.loads: KeyError when the member is missing,
\* ValueError when a string member is not a decimal integer
int_member(data, field) ==
    IF field \notin DOMAIN data THEN Raise("KeyError")
    ELSE int_text(data[field].text)

\* data[field] used without conversion (the exponent): the int json.loads
\* read.  The documents of the model carry the exponent as a number or not
\* at all.
raw_int_member(data, field) ==
    IF field \notin DOMAIN data THEN Raise("KeyError")
    ELSE int_text(data[field].text)

IsPrime(x) == x > 1 /\ \A d \in 2..(x - 1) : d * d > x \/ x % d # 0

----------------------------------------------------------------------------
(* phe.paillier, as the service uses it *)

\* EncodedNumber.BASE and LOG2_BASE
BASE == 16

LOG2_BASE == 4

\* EncodedNumber.FLOAT_MANTISSA_BITS (53 in the service; see Scale)
FLOAT_MANTISSA_BITS == 3

\* generate_paillier_keypair(n_length = 512) (10 in the model; see Scale)
n_length == 10

\* PaillierPublicKey(n)
PaillierPublicKey(n) ==
    [n |-> n, g |-> n + 1, nsquare |-> n * n, max_int |-> n \div 3 - 1]

\* PaillierPrivateKey.l_function
l_function(x, p) == (x - 1) \div p

\* PaillierPrivateKey.h_function
h_function(public_key, x, xsquare) ==
    invert(l_function(powmod(public_key.g, x - 1, xsquare), x), x)

RECURSIVE PaillierPrivateKey(_, _, _)
\* PaillierPrivateKey(public_key, p, q): refuses p * q # n and p = q, and
\* keeps the smaller prime as p
PaillierPrivateKey(public_key, p, q) ==
    IF p * q # public_key.n THEN Raise("ValueError")
    ELSE IF p = q THEN Raise("ValueError")
    ELSE IF q < p THEN PaillierPrivateKey(public_key, q, p)
    ELSE [err |-> "", public_key |-> public_key, p |-> p, q |-> q,
          psquare |-> p * p, qsquare |-> q * q,
          p_inverse |-> invert(p, q),
          hp |-> h_function(public_key, p, p * p),
          hq |-> h_function(public_key, q, q * q)]

\* util.getprimeover(N): the primes of N bits
getprimeover(N) == {x \in Pow(2, N - 1)..(Pow(2, N) - 1) : IsPrime(x)}

\* generate_paillier_keypair: redraws q while q = p, and both until n has
\* n_length bits; the pairs <<p, q>> it can return
generate_paillier_keypair ==
    {pq \in getprimeover(n_length \div 2) \X getprimeover(n_length \div 2) :
        pq[1] # pq[2] /\ bit_length(pq[1] * pq[2]) = n_length}

\* the least r > 1 that shares a factor with n
LeastNonUnit(n) == CHOOSE r \in 2..n : n % r = 0 /\ \A s \in 2..(r - 1) : n % s # 0

\* PaillierPublicKey.get_random_lt_n: random.SystemRandom().randrange(1, n)
\* returns any r in 1..n-1, a unit of Z_n or not.  The draws the model
\* enumerates: MaxBlind units from 2 on (the first prime factor of a
\* generated n is above them), and the least r that shares a factor with n.
get_random_lt_n(n) ==
    {r \in (2..(MaxBlind + 1)) \cup {LeastNonUnit(n)} : r < n}

\* math.frexp(x)[1] of the float m * 2^e
frexp_exponent(x) == IF x.m = 0 THEN 0 ELSE x.e + bit_length(x.m)

\* encode: the EncodedNumber of int_rep, within +/- max_int
encode_int_rep(public_key, int_rep, exponent) ==
    IF Abs(int_rep) > public_key.max_int THEN Raise("ValueError")
    ELSE [err |-> "", encoding |-> int_rep % public_key.n, exponent |-> exponent]

\* encode: int_rep = round(scalar * BASE^-exponent), scalar = m * 2^e
encode_at(public_key, scalar, exponent) ==
    encode_int_rep(public_key,
                   IF scalar.e >= LOG2_BASE * exponent
                   THEN scalar.m * Pow(2, scalar.e - LOG2_BASE * exponent)
                   ELSE round(scalar.m, Pow(2, LOG2_BASE * exponent - scalar.e)),
                   exponent)

\* EncodedNumber.encode(public_key, scalar) with precision = None
encode(public_key, scalar) ==
    encode_at(public_key, scalar,
              IF scalar.f
              THEN (frexp_exponent(scalar) - FLOAT_MANTISSA_BITS) \div LOG2_BASE
              ELSE 0)

\* A decoded number m * 2^e in lowest terms (m odd, or 0 * 2^0)
RECURSIVE Dyadic(_, _)
Dyadic(m, e) == IF m = 0 THEN [m |-> 0, e |-> 0]
                ELSE IF m % 2 = 0 THEN Dyadic(m \div 2, e + 1)
                ELSE [m |-> m, e |-> e]

\* a decode that never maps the upper part of Z_n to the negative numbers
decode_unsigned(public_key, encoding, exponent) ==
    IF encoding >= public_key.n THEN Raise("ValueError")
    ELSE [err |-> "", val |-> Dyadic(encoding, LOG2_BASE * exponent)]

\* EncodedNumber.decode
decode(public_key, encoding, exponent) ==
    IF encoding >= public_key.n THEN Raise("ValueError")
    ELSE IF encoding <= public_key.max_int
    THEN [err |-> "", val |-> Dyadic(encoding, LOG2_BASE * exponent)]
    ELSE IF encoding >= public_key.n - public_key.max_int
    THEN [err |-> "", val |-> Dyadic(encoding - public_key.n, LOG2_BASE * exponent)]
    ELSE Raise("OverflowError")

\* PaillierPublicKey.raw_encrypt(plaintext, r_value)
raw_encrypt(public_key, plaintext, r_value) ==
    LET n    == public_key.n
        nude == IF n - public_key.max_int <= plaintext /\ plaintext < n
                THEN invert((n * (n - plaintext) + 1) % public_key.nsquare,
                            public_key.nsquare)
                ELSE (n * plaintext + 1) % public_key.nsquare
    IN  mulmod(nude, powmod(r_value, n, public_key.nsquare), public_key.nsquare)

\* EncryptedNumber.obfuscate with the drawn r
obfuscate(public_key, ciphertext, r) ==
    mulmod(ciphertext, powmod(r, public_key.n, public_key.nsquare), public_key.nsquare)

\* PaillierPublicKey.encrypt(value) with r_value = None: encrypt_encoded with
\* obfuscator 1, then obfuscate()
encrypt_encoded(public_key, encoding, r) ==
    IF Raised(encoding) THEN encoding
    ELSE [err |-> "",
          ciphertext |-> obfuscate(public_key,
                                   raw_encrypt(public_key, encoding.encoding, 1), r),
          exponent |-> encoding.exponent]

encrypt(public_key, value, r) ==
    encrypt_encoded(public_key, encode(public_key, value), r)

\* PaillierPrivateKey.crt(mp, mq)
crt(private_key, mp, mq) ==
    mp + (((mq - mp) * private_key.p_inverse) % private_key.q) * private_key.p

\* PaillierPrivateKey.raw_decrypt
raw_decrypt(private_key, ciphertext) ==
    crt(private_key,
        (l_function(powmod(ciphertext, private_key.p - 1, private_key.psquare),
                    private_key.p) * private_key.hp) % private_key.p,
        (l_function(powmod(ciphertext, private_key.q - 1, private_key.qsquare),
                    private_key.q) * private_key.hq) % private_key.q)

\* PaillierPrivateKey.decrypt of EncryptedNumber(public_key, ciphertext, exponent)
decrypt(private_key, ciphertext, exponent) ==
    decode(private_key.public_key, raw_decrypt(private_key, ciphertext), exponent)

\* _raw_mul for a plaintext in the negative range: neg_c is the inverse of
\* the ciphertext
raw_mul_inverted(public_key, neg_c, neg_scalar) ==
    IF neg_c = 0 THEN Raise("ZeroDivisionError")
    ELSE [err |-> "", val |-> powmod(neg_c, neg_scalar, public_key.nsquare)]

\* EncryptedNumber._raw_mul(plaintext)
raw_mul(public_key, ciphertext, plaintext) ==
    IF plaintext < 0 \/ plaintext >= public_key.n THEN Raise("ValueError")
    ELSE IF public_key.n - public_key.max_int <= plaintext
    THEN raw_mul_inverted(public_key, invert(ciphertext, public_key.nsquare),
                          public_key.n - plaintext)
    ELSE [err |-> "", val |-> powmod(ciphertext, plaintext, public_key.nsquare)]

\* __mul__: the EncryptedNumber of the product
mul_product(product, exponent) ==
    IF Raised(product) THEN product
    ELSE [err |-> "", ciphertext |-> product.val, exponent |-> exponent]

\* __mul__ by the EncodedNumber encoding
mul_encoded(public_key, a, encoding) ==
    IF Raised(encoding) THEN encoding
    ELSE mul_product(raw_mul(public_key, a.ciphertext, encoding.encoding),
                     a.exponent + encoding.exponent)

\* a product that keeps the exponent of the ciphertext
mul_encoded_keep_exponent(public_key, a, encoding) ==
    IF Raised(encoding) THEN encoding
    ELSE mul_product(raw_mul(public_key, a.ciphertext, encoding.encoding), a.exponent)

mul_keep_exponent(public_key, a, scalar) ==
    mul_encoded_keep_exponent(public_key, a, encode(public_key, scalar))

\* EncryptedNumber.__mul__(scalar): an EncryptedNumber [ciphertext, exponent]
mul(public_key, a, scalar) == mul_encoded(public_key, a, encode(public_key, scalar))

\* EncryptedNumber.decrease_exponent_to(new_exp)
with_exponent(multiplied, new_exp) ==
    IF Raised(multiplied) THEN multiplied
    ELSE [multiplied EXCEPT !.exponent = new_exp]

decrease_exponent_to(public_key, a, new_exp) ==
    IF new_exp > a.exponent THEN Raise("ValueError")
    ELSE with_exponent(mul(public_key, a, Int_(Pow(BASE, a.exponent - new_exp))),
                       new_exp)

\* EncryptedNumber._add_encrypted(other): both carry the same public key
\* object, so the key comparison of the library cannot fail
\* _raw_add of the two aligned operands
raw_add(public_key, a, b) ==
    IF Raised(a) THEN a
    ELSE IF Raised(b) THEN b
    ELSE [err |-> "",
          ciphertext |-> mulmod(a.ciphertext, b.ciphertext, public_key.nsquare),
          exponent |-> a.exponent]

add_encrypted(public_key, a, b) ==
    IF a.exponent > b.exponent
    THEN raw_add(public_key, decrease_exponent_to(public_key, a, b.exponent), b)
    ELSE IF a.exponent < b.exponent
    THEN raw_add(public_key, a, decrease_exponent_to(public_key, b, a.exponent))
    ELSE raw_add(public_key, a, b)

----------------------------------------------------------------------------
(* src/app/encryption.py: HomomorphicEncryption *)

\* float('inf'), which the request model admits as a float: it has no
\* integer ratio, so encoding it raises OverflowError
Infinity == Float_(1, 1024)

\* public_key.encrypt(number)
public_key_encrypt(public_key, number, r) ==
    IF number = Infinity THEN Raise("OverflowError")
    ELSE encrypt(public_key, number, r)

\* generate_keypair: the key objects of a drawn pair <<p, q>>
generate_keypair(pq) ==
    LET public_key == PaillierPublicKey(pq[1] * pq[2])
    IN  [public_key |-> public_key,
         private_key |-> PaillierPrivateKey(public_key, pq[1], pq[2])]

\* serialize_public_key: json.dumps({'n': public_key.n})
serialize_public_key(public_key) == [n |-> json_number(public_key.n)]

\* deserialize_public_key
public_key_of(n) ==
    IF Raised(n) THEN n ELSE [err |-> "", key |-> PaillierPublicKey(n.val)]

deserialize_public_key(key_str) == public_key_of(int_member(key_str, "n"))

\* serialize_private_key: json.dumps({'p': private_key.p, 'q': private_key.q})
serialize_private_key(private_key) ==
    [p |-> json_number(private_key.p), q |-> json_number(private_key.q)]

\* deserialize_private_key
private_key_of(public_key, p, q) ==
    IF Raised(p) THEN p
    ELSE IF Raised(q) THEN q
    ELSE PaillierPrivateKey(public_key, p.val, q.val)

deserialize_private_key(key_str, public_key) ==
    private_key_of(public_key, int_member(key_str, "p"), int_member(key_str, "q"))

\* json.dumps({'ciphertext': str(x.ciphertext()), 'exponent': x.exponent})
dumps_encrypted(ciphertext, exponent) ==
    [ciphertext |-> json_string(str(ciphertext)), exponent |-> json_number(exponent)]

\* the result of an operation: the JSON text returned (str), and the
\* EncryptedNumber it was written from (encrypted); the exception if the
\* operation raised one
Serialized(encrypted) ==
    IF Raised(encrypted) THEN encrypted
    ELSE [err |-> "",
          str |-> dumps_encrypted(encrypted.ciphertext, encrypted.exponent),
          encrypted |-> [ciphertext |-> encrypted.ciphertext,
                         exponent |-> encrypted.exponent]]

\* encrypt_number
encrypt_number(public_key, number, r) ==
    Serialized(public_key_encrypt(public_key, number, r))

\* paillier.EncryptedNumber(public_key, int(data['ciphertext']), data['exponent'])
\* of json.loads(encrypted_str)
EncryptedNumber(ciphertext, exponent) ==
    IF Raised(ciphertext) THEN ciphertext
    ELSE IF Raised(exponent) THEN exponent
    ELSE [err |-> "", ciphertext |-> ciphertext.val, exponent |-> exponent.val]

loads_encrypted(encrypted_str) ==
    EncryptedNumber(int_member(encrypted_str, "ciphertext"),
                    raw_int_member(encrypted_str, "exponent"))

\* private_key.decrypt(encrypted_num)
private_key_decrypt(private_key, encrypted_num) ==
    IF Raised(encrypted_num) THEN encrypted_num
    ELSE decrypt(private_key, encrypted_num.ciphertext, encrypted_num.exponent)

\* decrypt_number
decrypt_number(private_key, encrypted_str) ==
    private_key_decrypt(private_key, loads_encrypted(encrypted_str))

\* result.ciphertext(): the result of an operation is blinded with a fresh
\* r when it is serialized
ciphertext_(public_key, result, r) ==
    IF Raised(result) THEN result
    ELSE [err |-> "",
          ciphertext |-> obfuscate(public_key, result.ciphertext, r),
          exponent |-> result.exponent]

\* result + encrypted_num
add_(public_key, result, encrypted_num) ==
    IF Raised(result) THEN result
    ELSE IF Raised(encrypted_num) THEN encrypted_num
    ELSE add_encrypted(public_key, result, encrypted_num)

\* the loop of add_encrypted_numbers: result after encrypted_nums[2..i]
RECURSIVE add_remaining(_, _, _)
add_remaining(public_key, encrypted_nums, i) ==
    IF i = 1 THEN loads_encrypted(encrypted_nums[1])
    ELSE add_(public_key, add_remaining(public_key, encrypted_nums, i - 1),
              loads_encrypted(encrypted_nums[i]))

\* add_encrypted_numbers; r blinds the serialized result
add_encrypted_numbers(public_key, encrypted_nums, r) ==
    IF encrypted_nums = <<>> THEN Raise("IndexError")
    ELSE Serialized(ciphertext_(public_key,
                                add_remaining(public_key, encrypted_nums,
                                              Len(encrypted_nums)), r))

\* encrypted_num * scalar
mul_(public_key, encrypted_num, scalar) ==
    IF Raised(encrypted_num) THEN encrypted_num
    ELSE IF scalar = Infinity THEN Raise("OverflowError")
    ELSE mul(public_key, encrypted_num, scalar)

\* multiply_encrypted_by_scalar
multiply_encrypted_by_scalar(public_key, encrypted_str, scalar, r) ==
    Serialized(ciphertext_(public_key,
                           mul_(public_key, loads_encrypted(encrypted_str), scalar), r))

----------------------------------------------------------------------------
(* src/app/routes.py: the handlers.  A handler's result is the HTTP       *)
(* response [status, detail, body]; for /encrypt the store it leaves; and  *)
(* in encrypted the EncryptedNumbers whose JSON text the body carries.     *)

\* an HTTPException caught by the handler's "except Exception" clause
HTTPException_as_500(status_code, detail) ==
    [status |-> 500, detail |-> detail, body |-> <<>>]

\* raise HTTPException(status_code, detail)
HTTPException(status_code, detail) ==
    [status |-> status_code, detail |-> detail, body |-> <<>>]

OK(body) == [status |-> 200, detail |-> "", body |-> body]

Upper == <<"A", "B", "C", "D", "E", "F", "G", "H", "I", "J", "K", "L", "M",
           "N", "O", "P", "Q", "R", "S", "T", "U", "V", "W", "X", "Y", "Z">>

Lower == <<"a", "b", "c", "d", "e", "f", "g", "h", "i", "j", "k", "l", "m",
           "n", "o", "p", "q", "r", "s", "t", "u", "v", "w", "x", "y", "z">>

\* str.lower()
lower(t) ==
    [i \in 1..Len(t) |->
        IF \E k \in 1..26 : Upper[k] = t[i]
        THEN Lower[CHOOSE k \in 1..26 : Upper[k] = t[i]]
        ELSE t[i]]

\* the exception of the first element that raised one
first_raised(results) ==
    results[CHOOSE i \in 1..Len(results) :
                /\ Raised(results[i])
                /\ \A j \in 1..(i - 1) : ~Raised(results[j])].err

\* [encrypt_number(public_key, num) for num in numbers]
encrypt_each(public_key, numbers, rs) ==
    [i \in 1..Len(numbers) |-> encrypt_number(public_key, numbers[i], rs[i])]

\* encrypt_numbers, from the serialized keys and the encrypted numbers on
encrypt_numbers_answer(store, public_key_str, private_key_str, encrypted_numbers) ==
    IF \E i \in 1..Len(encrypted_numbers) : Raised(encrypted_numbers[i])
    THEN [response |-> HTTPException(500, first_raised(encrypted_numbers)),
          store |-> store,
          encrypted |-> <<>>]
    ELSE [response |-> OK([encrypted_numbers |->
                               [i \in 1..Len(encrypted_numbers) |->
                                   encrypted_numbers[i].str],
                           public_key |-> public_key_str,
                           private_key |-> private_key_str]),
          store |-> (public_key_str :> private_key_str) @@ store,
          encrypted |-> [i \in 1..Len(encrypted_numbers) |->
                            encrypted_numbers[i].encrypted]]

\* encrypt_numbers, from the generated keys on
encrypt_numbers_keys(store, numbers, keys, rs) ==
    encrypt_numbers_answer(store,
                           serialize_public_key(keys.public_key),
                           serialize_private_key(keys.private_key),
                           encrypt_each(keys.public_key, numbers, rs))

\* an encrypt_numbers that stores the key pair before it encrypts
encrypt_numbers_store_first(store, numbers, pq, rs) ==
    encrypt_numbers_keys(
        (serialize_public_key(generate_keypair(pq).public_key)
            :> serialize_private_key(generate_keypair(pq).private_key)) @@ store,
        numbers, generate_keypair(pq), rs)

\* encrypt_numbers: the response, and the store after the request
encrypt_numbers(store, numbers, pq, rs) ==
    encrypt_numbers_keys(store, numbers, generate_keypair(pq), rs)

\* compute_on_encrypted after the operation returned or raised
compute_answer(result, invoked) ==
    [response |-> IF Raised(result) THEN HTTPException(500, result.err)
                  ELSE OK([encrypted_result |-> result.str]),
     invoked |-> invoked,
     encrypted |-> IF Raised(result) THEN <<>> ELSE <<result.encrypted>>]

\* compute_on_encrypted when no operation was called
compute_refusal(exception) ==
    [response |-> exception, invoked |-> "none", encrypted |-> <<>>]

\* compute_on_encrypted, from the deserialized key and the lowered
\* operation on
compute_operation(request, public_key, operation, r) ==
    IF Raised(public_key)
    THEN compute_refusal(HTTPException(500, public_key.err))
    ELSE IF operation \in {<<"a", "d", "d">>, <<"s", "u", "m">>}
    THEN compute_answer(add_encrypted_numbers(public_key.key,
                                              request.encrypted_numbers, r),
                        "add_encrypted_numbers")
    ELSE IF operation = <<"m", "u", "l", "t", "i", "p", "l", "y">>
    THEN IF ~request.multiplier.given
         THEN compute_refusal(
                  HTTPException(400, "Multiplier required for multiply operation"))
         ELSE IF request.encrypted_numbers = <<>>
         THEN compute_refusal(HTTPException(500, "IndexError"))
         ELSE compute_answer(multiply_encrypted_by_scalar(public_key.key,
                                 request.encrypted_numbers[1],
                                 request.multiplier.value, r),
                             "multiply_encrypted_by_scalar")
    ELSE compute_refusal(
             HTTPException(400, "Invalid operation. Use 'add', 'sum', or 'multiply'"))

\* compute_on_encrypted; invoked records which HomomorphicEncryption
\* operation the handler called
compute_on_encrypted(request, r) ==
    compute_operation(request, deserialize_public_key(request.public_key),
                      lower(request.operation), r)

\* decrypt_value after decrypt_number returned or raised
decrypt_answer(decrypted) ==
    IF Raised(decrypted) THEN HTTPException(500, decrypted.err)
    ELSE OK([decrypted_value |-> decrypted.val])

\* decrypt_value: decrypt_number with the deserialized private key
decrypt_with(private_key, encrypted_value) ==
    IF Raised(private_key) THEN private_key
    ELSE decrypt_number(private_key, encrypted_value)

\* decrypt_value: deserialize_private_key with the rebuilt public key
private_key_with(private_key_str, public_key) ==
    IF Raised(public_key) THEN public_key
    ELSE deserialize_private_key(private_key_str, public_key.key)

\* decrypt_value, from the rebuilt n on
decrypt_value_n(request, n) ==
    decrypt_answer(
        decrypt_with(private_key_with(request.private_key,
                                      deserialize_public_key([n |-> json_number(n)])),
                     request.encrypted_value))

\* a decrypt_value that rebuilds the modulus as p + q
decrypt_value_sum(request) ==
    IF "p" \notin DOMAIN request.private_key \/ "q" \notin DOMAIN request.private_key
    THEN HTTPException(500, "KeyError")
    ELSE IF request.private_key.p.quoted \/ request.private_key.q.quoted
    THEN HTTPException(500, "TypeError")
    ELSE decrypt_value_n(request, int_text(request.private_key.p.text).val
                                    + int_text(request.private_key.q.text).val)

\* decrypt_value.  priv_data['p'] * priv_data['q'] is a TypeError for two
\* strings; the documents of the model carry p and q both as numbers or
\* both as strings.
decrypt_value(request) ==
    IF "p" \notin DOMAIN request.private_key \/ "q" \notin DOMAIN request.private_key
    THEN HTTPException(500, "KeyError")
    ELSE IF request.private_key.p.quoted \/ request.private_key.q.quoted
    THEN HTTPException(500, "TypeError")
    ELSE decrypt_value_n(request, int_text(request.private_key.p.text).val
                                    * int_text(request.private_key.q.text).val)

\* abs(x - k) < 0.01 for the decoded number x = m * 2^e and the int k
within_tolerance(x, k) ==
    IF x.e >= 0 THEN x.m * Pow(2, x.e) = k
    ELSE 100 * Abs(x.m - k * Pow(2, -x.e)) < Pow(2, -x.e)

\* demo_full_workflow after decrypt_number returned or raised
demo_answer(decrypted_sum) ==
    IF Raised(decrypted_sum) THEN HTTPException(500, decrypted_sum.err)
    ELSE OK([original_numbers |-> <<10, 20, 30>>,
             expected_sum |-> 10 + 20 + 30,
             computed_sum |-> decrypted_sum.val,
             verification |-> IF within_tolerance(decrypted_sum.val, 10 + 20 + 30)
                              THEN "Success" ELSE "Failed"])

\* demo_full_workflow: decrypt_number of the encrypted sum
demo_decrypt(private_key, encrypted_sum) ==
    IF Raised(encrypted_sum) THEN encrypted_sum
    ELSE decrypt_number(private_key, encrypted_sum.str)

\* demo_full_workflow: add_encrypted_numbers over the encrypted numbers
demo_sum(public_key, encrypted, r) ==
    IF \E i \in 1..Len(encrypted) : Raised(encrypted[i])
    THEN Raise(first_raised(encrypted))
    ELSE add_encrypted_numbers(public_key,
                               [i \in 1..Len(encrypted) |-> encrypted[i].str], r)

\* demo_full_workflow, from the generated keys on
demo_keys(keys, rs, r) ==
    demo_answer(
        demo_decrypt(keys.private_key,
                     demo_sum(keys.public_key,
                              encrypt_each(keys.public_key,
                                           <<Int_(10), Int_(20), Int_(30)>>, rs),
                              r)))

\* demo_full_workflow
demo_full_workflow(pq, rs, r) == demo_keys(generate_keypair(pq), rs, r)

----------------------------------------------------------------------------
(* What the requests of the model carry *)

\* numbers of an /encrypt request (List[float]): 0.0, -1/16, 1/128, inf
Numbers == {Float_(0, 0), Float_(-1, -4), Float_(1, -7), Infinity}

\* multiplier of a /compute request (Optional[float]): None, 0.5, -0.5
Multipliers == {[given |-> FALSE, value |-> Float_(0, 0)],
                [given |-> TRUE, value |-> Float_(1, -1)],
                [given |-> TRUE, value |-> Float_(-1, -1)]}

\* operation of a /compute request
Operations == {<<"a", "d", "d">>, <<"S", "u", "m">>,
               <<"M", "U", "L", "T", "I", "P", "L", "Y">>,
               <<"d", "i", "v", "i", "d", "e">>}

\* malformed serialized keys and ciphertexts: a member missing, a string
\* member that is no integer
MalformedPublicKeys == {[m |-> json_number(527)],
                        [n |-> json_string(<<"x", "y">>)]}

MalformedPrivateKeys == {[p |-> json_number(17)],
                         [p |-> json_string(<<"1", "7">>),
                          q |-> json_string(<<"3", "1">>)]}

MalformedEncrypted == {[exponent |-> json_number(0)],
                       [ciphertext |-> json_string(<<"0", "x", "1">>),
                        exponent |-> json_number(0)]}

SeqsUpTo(S, k) == UNION {[1..len -> S] : len \in 0..k}

\* the moduli generate_keypair can produce
Moduli == {pq[1] * pq[2] : pq \in generate_paillier_keypair}

\* the key pair of another, independent generate_keypair call: one that
\* differs from the pair of modulus n
ForeignKeys(n) ==
    LET m == CHOOSE m \in Moduli \ {n} : \A k \in Moduli \ {n} : m <= k
    IN  generate_keypair(CHOOSE pq \in generate_paillier_keypair : pq[1] * pq[2] = m)

----------------------------------------------------------------------------
(* Plaintext arithmetic the responses are compared with *)

\* the value of a finite number
Value(x) == Dyadic(x.m, x.e)

DyadicAdd(a, b) ==
    LET e == Min(a.e, b.e)
    IN  Dyadic(a.m * Pow(2, a.e - e) + b.m * Pow(2, b.e - e), e)

DyadicMul(a, b) == Dyadic(a.m * b.m, a.e + b.e)

RECURSIVE DyadicSum(_)
DyadicSum(xs) == IF xs = <<>> THEN Dyadic(0, 0)
                 ELSE DyadicAdd(Value(Head(xs)), DyadicSum(Tail(xs)))

\* x = k * BASE^exponent for an integer k with |k| <= max_int: x is a
\* plaintext of the key at that exponent
Representable(public_key, x, exponent) ==
    LET shift == x.e - LOG2_BASE * exponent
    IN  x.m = 0 \/ (shift >= 0 /\ Abs(x.m) * Pow(2, shift) <= public_key.max_int)

\* the exponent encode gives a finite number
ExponentOf(x) ==
    IF x.f THEN (frexp_exponent(x) - FLOAT_MANTISSA_BITS) \div LOG2_BASE ELSE 0

RECURSIVE MinExponent(_)
MinExponent(xs) ==
    IF Len(xs) = 1 THEN ExponentOf(xs[1])
    ELSE Min(ExponentOf(xs[1]), MinExponent(Tail(xs)))

\* the sum of xs stays inside the plaintext range of the key
SumInRange(public_key, xs) ==
    Representable(public_key, DyadicSum(xs), MinExponent(xs))

\* the product a * k stays inside the plaintext range of the key
ProductInRange(public_key, a, k) ==
    Representable(public_key, DyadicMul(Value(a), Value(k)),
                  ExponentOf(a) + ExponentOf(k))

IsUnit(r, n) == GCD(r, n) = 1

----------------------------------------------------------------------------
(* The service and one client.  temp_keypair_storage is the only state of  *)
(* the program.  issued is what the last successful /encrypt handed to the *)
(* client; response is the exchange being answered, with the facts about   *)
(* its request that the properties below speak of, and is "none" between   *)
(* two exchanges.                                                          *)

NoEntries == [k \in {} |-> k]

Delivered == [handler |-> "none"]

Init ==
    /\ temp_keypair_storage = NoEntries
    /\ issued = [have |-> FALSE]
    /\ response = Delivered

\* the state after encrypt_numbers answered out for the modulus n
EncryptAnswer(numbers, n, rs, out) ==
    /\ temp_keypair_storage' = out.store
    /\ response' = [handler |-> "encrypt",
                    request |-> [numbers |-> numbers],
                    status  |-> out.response.status,
                    detail  |-> out.response.detail,
                    body    |-> out.response.body,
                    encrypted |-> out.encrypted,
                    n       |-> n,
                    rs      |-> rs]
    /\ issued' = IF out.response.status = 200
                 THEN [have |-> TRUE,
                       public_key  |-> out.response.body.public_key,
                       private_key |-> out.response.body.private_key,
                       encrypted_numbers |-> out.response.body.encrypted_numbers,
                       numbers |-> numbers,
                       n       |-> n,
                       units   |-> [i \in 1..Len(numbers) |-> IsUnit(rs[i], n)]]
                 ELSE issued

\* POST /encrypt with a list of numbers out of lists
EncryptRequest(lists) ==
    /\ response = Delivered
    /\ \E numbers \in lists, pq \in generate_paillier_keypair :
         \E rs \in [1..Len(numbers) -> get_random_lt_n(pq[1] * pq[2])] :
            EncryptAnswer(numbers, pq[1] * pq[2], rs,
                          encrypt_numbers(temp_keypair_storage, numbers, pq, rs))

\* the public keys a client sends: the one it was issued, the one of an
\* independent key pair, malformed ones
ClientPublicKeys ==
    (IF issued.have
     THEN {issued.public_key,
           serialize_public_key(ForeignKeys(issued.n).public_key)}
     ELSE {serialize_public_key(PaillierPublicKey(n)) : n \in Moduli})
      \cup MalformedPublicKeys

\* the state after compute_on_encrypted answered out; unit tells whether
\* the blinding factor it drew is coprime to n
ComputeAnswer(request, out, unit) ==
    /\ response' = [handler |-> "compute",
                    request |-> request,
                    status  |-> out.response.status,
                    detail  |-> out.response.detail,
                    body    |-> out.response.body,
                    invoked |-> out.invoked,
                    encrypted |-> out.encrypted,
                    unit    |-> out.response.status # 200 \/ unit]
    /\ UNCHANGED <<temp_keypair_storage, issued>>

\* compute_on_encrypted draws its blinding factor below the n of the key
\* the request carries
ComputeDraw(request, parsed) ==
    \E r \in IF Raised(parsed) THEN {1} ELSE get_random_lt_n(parsed.key.n) :
        ComputeAnswer(request, compute_on_encrypted(request, r),
                      Raised(parsed) \/ IsUnit(r, parsed.key.n))

\* POST /compute: on the ciphertexts the client holds, on none, or on a
\* malformed one
ComputeRequest ==
    /\ response = Delivered
    /\ \E public_key \in ClientPublicKeys,
          encrypted_numbers \in
              (IF issued.have THEN {issued.encrypted_numbers} ELSE {})
                \cup SeqsUpTo(MalformedEncrypted, 1),
          operation \in Operations,
          multiplier \in Multipliers :
        ComputeDraw([encrypted_numbers |-> encrypted_numbers,
                     public_key |-> public_key,
                     operation  |-> operation,
                     multiplier |-> multiplier],
                    deserialize_public_key(public_key))

\* the private keys a client sends: the one it was issued, malformed ones
ClientPrivateKeys ==
    (IF issued.have
     THEN {issued.private_key}
     ELSE {})
      \cup MalformedPrivateKeys

\* the state after decrypt_value answered out
DecryptAnswer(request, source, out) ==
    /\ response' = [handler |-> "decrypt",
                    request |-> request,
                    status  |-> out.status,
                    detail  |-> out.detail,
                    body    |-> out.body,
                    source  |-> source,
                    computed |-> IF source = "computed" THEN response
                                 ELSE Delivered]
    /\ UNCHANGED <<temp_keypair_storage, issued>>

\* decrypt_value on a request
DecryptCall(request, source) ==
    DecryptAnswer(request, source, decrypt_value(request))

\* POST /decrypt: of a ciphertext /encrypt issued ("number"), of the result
\* /compute has just answered ("computed"), or of a malformed one
DecryptRequest ==
    \E private_key \in ClientPrivateKeys, source \in {"number", "computed", "malformed"} :
        \E encrypted_value \in
             CASE source = "number" ->
                    IF issued.have /\ response = Delivered
                    THEN {issued.encrypted_numbers[i] :
                              i \in 1..Len(issued.encrypted_numbers)}
                    ELSE {}
               [] source = "computed" ->
                    IF response.handler = "compute" /\ response.status = 200
                    THEN {response.body.encrypted_result}
                    ELSE {}
               [] OTHER ->
                    IF response = Delivered THEN MalformedEncrypted ELSE {} :
            DecryptCall([encrypted_value |-> encrypted_value,
                         private_key |-> private_key], source)

\* what GET /demo/full-workflow can answer: the handler reads no state, so
\* its responses over the key pairs and blinding factors it can draw are
\* one set; units records whether every factor drawn was a unit of Z_n
demo_responses ==
    {[response |-> demo_full_workflow(d[1], d[2], d[3]),
      units |-> /\ IsUnit(d[3], d[1][1] * d[1][2])
                /\ \A i \in 1..3 : IsUnit(d[2][i], d[1][1] * d[1][2])] :
        d \in UNION {{pq} \X [1..3 -> get_random_lt_n(pq[1] * pq[2])]
                          \X get_random_lt_n(pq[1] * pq[2]) :
                     pq \in generate_paillier_keypair}}

\* GET /demo/full-workflow
DemoRequest ==
    /\ response = Delivered
    /\ \E out \in demo_responses :
        /\ response' = [handler |-> "demo",
                        status  |-> out.response.status,
                        detail  |-> out.response.detail,
                        body    |-> out.response.body,
                        units   |-> out.units]
        /\ UNCHANGED <<temp_keypair_storage, issued>>

\* the response is sent and the exchange is over
Deliver ==
    /\ response # Delivered
    /\ response' = Delivered
    /\ UNCHANGED <<temp_keypair_storage, issued>>

\* One client session: /encrypt once, then any requests on what it issued.
\* No handler reads temp_keypair_storage, so a later session repeats this one.
Next ==
    \/ ~issued.have /\ EncryptRequest(SeqsUpTo(Numbers, MaxNumbers))
    \/ ComputeRequest
    \/ DecryptRequest
    \/ DemoRequest
    \/ Deliver

Spec == Init /\ [][Next]_vars

\* Several sessions, for the key store: /encrypt while the store holds fewer
\* than MaxStored entries, with at most one number.
NextStore ==
    \/ /\ Cardinality(DOMAIN temp_keypair_storage) < MaxStored
       /\ EncryptRequest(SeqsUpTo(Numbers, 1))
    \/ ComputeRequest
    \/ DecryptRequest
    \/ DemoRequest
    \/ Deliver

SpecStore == Init /\ [][NextStore]_vars

----------------------------------------------------------------------------
(* Properties *)

AddOperations == {<<"a", "d", "d">>, <<"s", "u", "m">>}

MultiplyOperation == <<"m", "u", "l", "t", "i", "p", "l", "y">>

\* the key objects generate_keypair made for the modulus n
KeysOf(n) ==
    generate_keypair(CHOOSE pq \in generate_paillier_keypair :
                         pq[1] * pq[2] = n /\ pq[1] < pq[2])

\* c answers a /compute on the ciphertexts /encrypt issued, under the public
\* key issued with them
OwnCompute(c) ==
    /\ c.handler = "compute"
    /\ issued.have
    /\ c.request.public_key = issued.public_key
    /\ c.request.encrypted_numbers = issued.encrypted_numbers

\* response answers a /decrypt, with the private key issued, of the result
\* the /compute c returned
DecryptOf(c) ==
    /\ response.handler = "decrypt"
    /\ response.source = "computed"
    /\ response.computed = c
    /\ response.request.private_key = issued.private_key

\* every blinding factor of the issued ciphertexts is coprime to n
AllUnits == \A i \in 1..Len(issued.numbers) : issued.units[i]

\* c is add_encrypted_numbers over the issued ciphertexts of a non-empty
\* sequence whose sum is in range, every blinding factor coprime to n
SumCase(c) ==
    /\ OwnCompute(c)
    /\ c.invoked = "add_encrypted_numbers"
    /\ issued.numbers # <<>>
    /\ AllUnits /\ c.unit
    /\ SumInRange(PaillierPublicKey(issued.n), issued.numbers)

\* C1: additive homomorphism.  For every key pair, every non-empty sequence
\* of plaintexts whose sum is inside the plaintext range and all blinding
\* factors coprime to n, add_encrypted_numbers over the encrypt_number
\* outputs returns a ciphertext and decrypt_number of it is the sum of the
\* plaintexts; the demo workflow on [10, 20, 30] reports Success.
AdditiveHomomorphism ==
    /\ SumCase(response) => response.status = 200
    /\ response.handler = "decrypt" /\ SumCase(response.computed) /\ DecryptOf(response.computed)
         => /\ response.status = 200
            /\ response.body.decrypted_value = DyadicSum(issued.numbers)
    /\ response.handler = "demo" /\ response.units
         => /\ response.status = 200
            /\ response.body.verification = "Success"

RECURSIVE MaxExponent(_)
MaxExponent(xs) ==
    IF Len(xs) = 1 THEN ExponentOf(xs[1])
    ELSE LET rest == MaxExponent(Tail(xs))
         IN  IF ExponentOf(xs[1]) >= rest THEN ExponentOf(xs[1]) ELSE rest

\* the factor BASE^d of every alignment of xs is itself a plaintext of the key
Alignable(public_key, xs) ==
    Pow(BASE, MaxExponent(xs) - MinExponent(xs)) <= public_key.max_int

\* C1, where it holds: the sum is returned and decrypts to the sum of the
\* plaintexts when, besides, the exponents of the plaintexts are close
\* enough for every alignment factor to be encodable.
AdditiveHomomorphismAligned ==
    /\ SumCase(response) /\ Alignable(PaillierPublicKey(issued.n), issued.numbers)
         => response.status = 200
    /\ response.handler = "decrypt"
         /\ SumCase(response.computed) /\ DecryptOf(response.computed)
         /\ Alignable(PaillierPublicKey(issued.n), issued.numbers)
         => /\ response.status = 200
            /\ response.body.decrypted_value = DyadicSum(issued.numbers)
    /\ response.handler = "demo" /\ response.units
         => /\ response.status = 200
            /\ response.body.verification = "Success"

\* a sum of two plaintexts with different exponents was aligned, returned
\* and decrypted
AdditiveHomomorphismReached ==
    /\ response.handler = "decrypt"
    /\ SumCase(response.computed) /\ DecryptOf(response.computed)
    /\ Len(issued.numbers) = 2
    /\ ExponentOf(issued.numbers[1]) # ExponentOf(issued.numbers[2])
    /\ issued.numbers[1].m # 0 /\ issued.numbers[2].m # 0
    /\ response.status = 200

\* response answers a /decrypt, with the private key issued, of the i-th
\* ciphertext /encrypt issued, whose blinding factor is coprime to n
DecryptOfIssued(i) ==
    /\ response.handler = "decrypt"
    /\ response.source = "number"
    /\ response.request.private_key = issued.private_key
    /\ response.request.encrypted_value = issued.encrypted_numbers[i]
    /\ issued.units[i]

ProductCase(c) ==
    /\ OwnCompute(c)
    /\ c.invoked = "multiply_encrypted_by_scalar"
    /\ issued.units[1] /\ c.unit
    /\ ProductInRange(PaillierPublicKey(issued.n), issued.numbers[1],
                      c.request.multiplier.value)

KeyIsolation ==
    (/\ response.handler = "compute"
     /\ issued.have
     /\ response.request.encrypted_numbers = issued.encrypted_numbers
     /\ issued.encrypted_numbers # <<>>
     /\ response.request.public_key \notin MalformedPublicKeys
     /\ response.request.public_key # issued.public_key
     /\ response.invoked # "none")
      => /\ response.status # 200
         /\ response.detail = "KeyMismatchError"

\* C5: adding an empty sequence of ciphertexts fails with EmptyOperandError,
\* a caller-input error, and returns no result.
EmptyOperand ==
    (/\ response.handler = "compute"
     /\ response.request.public_key \notin MalformedPublicKeys
     /\ lower(response.request.operation) \in AddOperations
     /\ response.request.encrypted_numbers = <<>>)
      => /\ response.status \in 400..499
         /\ response.detail = "EmptyOperandError"

\* the /compute request names no known operation, or multiply without a
\* multiplier, and its public key deserializes
NotComputable(request) ==
    /\ ~Raised(deserialize_public_key(request.public_key))
    /\ \/ lower(request.operation) \notin AddOperations \cup {MultiplyOperation}
       \/ /\ lower(request.operation) = MultiplyOperation
          /\ ~request.multiplier.given

\* C6: a /compute whose operation is none of add, sum, multiply (case
\* ignored), or is multiply without a multiplier, is answered 400, never
\* 500, and no homomorphic operation is invoked, whatever its other fields.
CallerErrors ==
    response.handler = "compute" /\ NotComputable(response.request)
      => /\ response.status = 400
         /\ response.invoked = "none"

\* multiply without a multiplier on issued ciphertexts was answered, and so
\* was an unknown operation on a malformed ciphertext
CallerErrorsReached ==
    /\ response.handler = "compute"
    /\ NotComputable(response.request)
    /\ response.status = 400
    /\ \/ /\ lower(response.request.operation) = MultiplyOperation
          /\ OwnCompute(response)
          /\ issued.encrypted_numbers # <<>>
       \/ /\ lower(response.request.operation) \notin AddOperations \cup {MultiplyOperation}
          /\ response.request.encrypted_numbers \in SeqsUpTo(MalformedEncrypted, 1)

\* an EncryptedNumber as loads_encrypted returns it
Loaded(encrypted) ==
    [err |-> "", ciphertext |-> encrypted.ciphertext, exponent |-> encrypted.exponent]

\* C7: codec round trip.  The serialized public key deserializes to the
\* same n, the serialized private key to the same p and q, and every
\* {ciphertext, exponent} text written by encrypt_number,
\* add_encrypted_numbers or multiply_encrypted_by_scalar is read back to
\* the ciphertext integer and the exponent it was written from.
CodecRoundTrip ==
    /\ response.handler = "encrypt" /\ response.status = 200
         => LET keys == KeysOf(response.n)
                public_key  == deserialize_public_key(response.body.public_key)
                private_key == deserialize_private_key(response.body.private_key,
                                                       keys.public_key)
            IN  /\ ~Raised(public_key)
                /\ public_key.key.n = response.n
                /\ ~Raised(private_key)
                /\ private_key.p = keys.private_key.p
                /\ private_key.q = keys.private_key.q
                /\ \A i \in 1..Len(response.encrypted) :
                       loads_encrypted(response.body.encrypted_numbers[i])
                           = Loaded(response.encrypted[i])
    /\ response.handler = "compute" /\ response.status = 200
         => loads_encrypted(response.body.encrypted_result)
                = Loaded(response.encrypted[1])

\* a computed ciphertext of more than 16 bits with a negative exponent was
\* written
CodecRoundTripReached ==
    /\ response.handler = "compute"
    /\ response.status = 200
    /\ response.encrypted[1].ciphertext > 65536
    /\ response.encrypted[1].exponent < 0
    /\ loads_encrypted(response.body.encrypted_result) = Loaded(response.encrypted[1])

\* response answers a /decrypt, with the private key issued, of a ciphertext
\* /encrypt issued or /compute returned under the key issued
DecryptOfOwn ==
    /\ response.handler = "decrypt"
    /\ issued.have
    /\ response.request.private_key = issued.private_key
    /\ \/ response.source = "number"
       \/ response.source = "computed" /\ OwnCompute(response.computed)

\* C8: /decrypt needs only the private key.  Given the serialized {p, q}
\* of a key pair /encrypt produced and a ciphertext produced under it, the
\* handler answers what decrypt_number gives with the key objects
\* generate_keypair made.
PrivateKeySuffices ==
    DecryptOfOwn
      => LET decrypted == decrypt_number(KeysOf(issued.n).private_key,
                                         response.request.encrypted_value)
         IN  IF Raised(decrypted)
             THEN response.status = 500 /\ response.detail = decrypted.err
             ELSE /\ response.status = 200
                  /\ response.body.decrypted_value = decrypted.val

\* the result of a /compute was decrypted from the private key alone
PrivateKeySufficesReached ==
    /\ DecryptOfOwn
    /\ response.source = "computed"
    /\ response.status = 200
    /\ response.body.decrypted_value.m # 0

\* C9: defensive decoding.  A malformed serialized public key, private key
\* or ciphertext fails with a CodecError; no KeyError, ValueError or
\* TypeError of the parse reaches the caller.
DefensiveDecoding ==
    /\ response.handler = "compute"
         /\ response.request.public_key \in MalformedPublicKeys
         => response.detail = "CodecError"
    /\ response.handler = "decrypt"
         /\ (\/ response.request.private_key \in MalformedPrivateKeys
             \/ response.request.encrypted_value \in MalformedEncrypted)
         => response.detail = "CodecError"

\* every entry maps a serialized public key {n} to a serialized private key
\* {p, q} with p * q = n
StoreWellFormed ==
    \A k \in DOMAIN temp_keypair_storage :
        LET n == int_member(k, "n")
            p == int_member(temp_keypair_storage[k], "p")
            q == int_member(temp_keypair_storage[k], "q")
        IN  /\ DOMAIN k = {"n"}
            /\ DOMAIN temp_keypair_storage[k] = {"p", "q"}
            /\ ~Raised(n) /\ ~Raised(p) /\ ~Raised(q)
            /\ p.val * q.val = n.val

\* a successful /encrypt writes the one entry of the keys it answers, and
\* every other step leaves the store as it is
StoreStep ==
    IF response'.handler = "encrypt" /\ response'.status = 200
    THEN temp_keypair_storage' =
             (response'.body.public_key :> response'.body.private_key)
                 @@ temp_keypair_storage
    ELSE temp_keypair_storage' = temp_keypair_storage

\* C10: keystore invariant.  After any sequence of requests every entry of
\* temp_keypair_storage maps {n} to {p, q} with p * q = n; only a
\* successful /encrypt adds an entry, exactly one; a failed /encrypt,
\* /compute, /decrypt and the demo leave the store unchanged.
KeystoreInvariant == []StoreWellFormed /\ [][StoreStep]_vars

\* a failed /encrypt was answered after a successful one, and the store
\* holds the entry of the successful one
KeystoreInvariantReached ==
    /\ response.handler = "encrypt"
    /\ response.status = 500
    /\ issued.have
    /\ DOMAIN temp_keypair_storage = {issued.public_key}
    /\ temp_keypair_storage[issued.public_key] = issued.private_key

====
